---- MODULE Spec2Model ----
(***************************************************************************)
(* A model of gcert: the functional options (options.go), Generate,        *)
(* ParsePemCertFile, ParsePemKeyFile and Verify (gcert.go), together with   *)
(* the parts of the environment they act on: a file system with modes and  *)
(* per-handle write offsets, a clock, and the crypto/x509 primitives they   *)
(* call.                                                                   *)
(*                                                                         *)
(* Conventions.  A path is the pair <<dir, name>> (fmt.Sprintf("%s/%s"));  *)
(* the empty path is <<>>.  A host string is the sequence of its           *)
(* comma-separated tokens; the empty string is <<>>.  Time is counted in   *)
(* ticks, TicksPerSecond to the second; a certificate stores whole seconds. *)
(* A PEM file is a sequence of cells, one cell per Write   *)
(* call of pem.Encode.  Keys, certificates and serial numbers carry the    *)
(* identity <<process, call index>> of the call that drew them from the    *)
(* random source ("ext" for material that was on disk beforehand).         *)
(***************************************************************************)
EXTENDS Integers, Sequences, FiniteSets, TLC

VARIABLES
    script,      \* per process: the calls its caller makes, in order
    ip,          \* per process: index of the current / next call in script
    pc,          \* per process: position inside the current call
    results,     \* per process: the values returned by its finished calls
    gen,         \* per process: the locals of its latest Generate call
    ver,         \* per process: the locals of its latest Verify call
    handle,      \* per process: the file it holds open, and its write offset
    fs,          \* the file system: path -> [exists, mode, data]
    umask,       \* the process umask (a set of permission bits)
    now,         \* the system clock
    env,         \* the environment of this run: whether it may fail an operation
                 \* (mayFail), and the last tick of its clock (lastTick)
    envFault,    \* history: the environment failed an operation (I/O, RNG)
    entryFs,     \* history: per process, the file system when its latest Generate began
    lastWriter,  \* history: per path, the process whose Write came last
    overlapped   \* history: per path, it was opened while another process had it open

vars == <<script, ip, pc, results, gen, ver, handle, fs, umask, now, env,
          envFault, entryFs, lastWriter, overlapped>>

----------------------------------------------------------------------------
(* Bounds of the model *)

\* longest option list in SpecOpts
MaxOpts == 2
\* longest option list in SpecKey
MaxKeyOpts == 3
\* the clock of SpecTime runs from tick 0 to tick MaxTime
MaxTime == 3
\* resolution of the clock and of durations: ticks in a second
TicksPerSecond == 2
\* number of Write calls one pem.Encode makes on its file
PemWrites == 2

----------------------------------------------------------------------------
(* Universe of inputs *)

Procs == {"p1", "p2"}
Dirs == {"data", "alt"}
Names == {"cert.pem", "key.pem", "ca_cert.pem", "ca_key.pem"}
Paths == Dirs \X Names
NoPath == <<>>

CurveP224 == "P224"
CurveP256 == "P256"
CurveP384 == "P384"
CurveP521 == "P521"
NamedCurves == {CurveP224, CurveP256, CurveP384, CurveP521}

Second == TicksPerSecond
Hour == 3600 * Second

\* permission bits of a file mode
Mode0666 == {"ur", "uw", "gr", "gw", "or", "ow"}
Mode0600 == {"ur", "uw"}
Mode0644 == {"ur", "uw", "gr", "or"}
Umask022 == {"gw", "ow"}
Umask077 == {"gr", "gw", "or", "ow"}

----------------------------------------------------------------------------
(* options.go *)

initOptions ==
    [parentCert   |-> NoPath,
     parentKey    |-> NoPath,
     certFileName |-> "cert.pem",
     keyFileName  |-> "key.pem",
     validFrom    |-> "",
     validFor     |-> 365 * 24 * Hour,
     rsaBits      |-> 2048,
     ecdsaCurve   |-> "",
     ed25519Key   |-> FALSE,
     isCA         |-> FALSE]

\* An Option value: the closure an option function returns, with the
\* arguments it captured.
Option(fn, str, path1, path2, num) ==
    [fn |-> fn, str |-> str, path1 |-> path1, path2 |-> path2, num |-> num]

WithKeyFileName(keyFileName) == Option("WithKeyFileName", keyFileName, NoPath, NoPath, 0)
WithCertFileName(certFileName) == Option("WithCertFileName", certFileName, NoPath, NoPath, 0)
WithSignByParent(parentCertPath, parentKeyPath) ==
    Option("WithSignByParent", "", parentCertPath, parentKeyPath, 0)
WithStartDate(startDate) == Option("WithStartDate", startDate, NoPath, NoPath, 0)
WithDuration(duration) == Option("WithDuration", "", NoPath, NoPath, duration)
WithCA == Option("WithCA", "", NoPath, NoPath, 0)
WithRSABits(bits) == Option("WithRSABits", "", NoPath, NoPath, bits)
WithP224 == Option("WithP224", "", NoPath, NoPath, 0)
WithP256 == Option("WithP256", "", NoPath, NoPath, 0)
WithP384 == Option("WithP384", "", NoPath, NoPath, 0)
WithP521 == Option("WithP521", "", NoPath, NoPath, 0)
WithED25519 == Option("WithED25519", "", NoPath, NoPath, 0)
\* An Option written as a function literal inside the package,
\* func(o *options) { o.ecdsaCurve = curve }: Option is any func(*options),
\* and only such a literal gives ecdsaCurve a value other than the four names.
CurveLiteral(curve) == Option("literal", curve, NoPath, NoPath, 0)

\* mutant of ApplyOption: WithSignByParent forgets the key path
ApplyOptionDropsParentKey(opt, o) ==
    CASE opt.fn = "WithKeyFileName"  -> [o EXCEPT !.keyFileName = opt.str]
      [] opt.fn = "WithCertFileName" -> [o EXCEPT !.certFileName = opt.str]
      [] opt.fn = "WithSignByParent" -> [o EXCEPT !.parentCert = opt.path1]
      [] opt.fn = "WithStartDate"    -> [o EXCEPT !.validFrom = opt.str]
      [] opt.fn = "WithDuration"     -> [o EXCEPT !.validFor = opt.num]
      [] opt.fn = "WithCA"           -> [o EXCEPT !.isCA = TRUE]
      [] opt.fn = "WithRSABits"      -> [o EXCEPT !.rsaBits = opt.num]
      [] opt.fn = "WithP224"         -> [o EXCEPT !.ecdsaCurve = CurveP224]
      [] opt.fn = "WithP256"         -> [o EXCEPT !.ecdsaCurve = CurveP256]
      [] opt.fn = "WithP384"         -> [o EXCEPT !.ecdsaCurve = CurveP384]
      [] opt.fn = "WithP521"         -> [o EXCEPT !.ecdsaCurve = CurveP521]
      [] opt.fn = "WithED25519"      -> [o EXCEPT !.ed25519Key = TRUE]
      [] opt.fn = "literal"          -> [o EXCEPT !.ecdsaCurve = opt.str]

\* opt(&o): the body of the closure each option function returns
ApplyOption(opt, o) ==
    CASE opt.fn = "WithKeyFileName"  -> [o EXCEPT !.keyFileName = opt.str]
      [] opt.fn = "WithCertFileName" -> [o EXCEPT !.certFileName = opt.str]
      [] opt.fn = "WithSignByParent" -> [o EXCEPT !.parentCert = opt.path1,
                                                  !.parentKey = opt.path2]
      [] opt.fn = "WithStartDate"    -> [o EXCEPT !.validFrom = opt.str]
      [] opt.fn = "WithDuration"     -> [o EXCEPT !.validFor = opt.num]
      [] opt.fn = "WithCA"           -> [o EXCEPT !.isCA = TRUE]
      [] opt.fn = "WithRSABits"      -> [o EXCEPT !.rsaBits = opt.num]
      [] opt.fn = "WithP224"         -> [o EXCEPT !.ecdsaCurve = CurveP224]
      [] opt.fn = "WithP256"         -> [o EXCEPT !.ecdsaCurve = CurveP256]
      [] opt.fn = "WithP384"         -> [o EXCEPT !.ecdsaCurve = CurveP384]
      [] opt.fn = "WithP521"         -> [o EXCEPT !.ecdsaCurve = CurveP521]
      [] opt.fn = "WithED25519"      -> [o EXCEPT !.ed25519Key = TRUE]
      [] opt.fn = "literal"          -> [o EXCEPT !.ecdsaCurve = opt.str]

----------------------------------------------------------------------------
(* Keys, certificates and the crypto primitives Generate and Verify call *)

NoId == <<"none", 0>>
NoKey == [family |-> "none", bits |-> 0, curve |-> "", id |-> NoId, private |-> FALSE]

RsaKey(bits, id) == [family |-> "RSA", bits |-> bits, curve |-> "", id |-> id, private |-> TRUE]
EcdsaKey(curve, id) == [family |-> "ECDSA", bits |-> 0, curve |-> curve, id |-> id, private |-> TRUE]
Ed25519Key(id) == [family |-> "Ed25519", bits |-> 0, curve |-> "", id |-> id, private |-> TRUE]

\* rsa.GenerateKey rejects a bit size too small to hold two primes
RsaBitsUsable(bits) == bits >= 1024

\* mutant of GenerateKey: the Ed25519 flag is looked at before the curve
GenerateKeyEd25519First(o, id, rngOk) ==
    IF o.ed25519Key
    THEN IF rngOk THEN [err |-> "", key |-> Ed25519Key(id)]
                  ELSE [err |-> "failed to generate private key", key |-> NoKey]
    ELSE CASE o.ecdsaCurve = "" ->
                 IF rngOk /\ RsaBitsUsable(o.rsaBits)
                 THEN [err |-> "", key |-> RsaKey(o.rsaBits, id)]
                 ELSE [err |-> "failed to generate private key", key |-> NoKey]
           [] o.ecdsaCurve \in NamedCurves ->
                 IF rngOk THEN [err |-> "", key |-> EcdsaKey(o.ecdsaCurve, id)]
                          ELSE [err |-> "failed to generate private key", key |-> NoKey]
           [] OTHER -> [err |-> "unrecognized elliptic curve", key |-> NoKey]

\* the value of priv and err after the switch on o.ecdsaCurve; rngOk: rand.Reader delivers
GenerateKey(o, id, rngOk) ==
    CASE o.ecdsaCurve = "" ->
            IF o.ed25519Key
            THEN IF rngOk THEN [err |-> "", key |-> Ed25519Key(id)]
                          ELSE [err |-> "failed to generate private key", key |-> NoKey]
            ELSE IF rngOk /\ RsaBitsUsable(o.rsaBits)
                 THEN [err |-> "", key |-> RsaKey(o.rsaBits, id)]
                 ELSE [err |-> "failed to generate private key", key |-> NoKey]
      [] o.ecdsaCurve \in NamedCurves ->
            IF rngOk THEN [err |-> "", key |-> EcdsaKey(o.ecdsaCurve, id)]
                     ELSE [err |-> "failed to generate private key", key |-> NoKey]
      [] OTHER -> [err |-> "unrecognized elliptic curve", key |-> NoKey]

\* publicKey(priv)
publicKey(priv) ==
    IF priv.family \in {"RSA", "ECDSA", "Ed25519"}
    THEN [priv EXCEPT !.private = FALSE]
    ELSE NoKey

NoCert ==
    [serialNumber |-> NoId, notBefore |-> 0, notAfter |-> 0,
     keyUsage |-> {}, extKeyUsage |-> {}, basicConstraintsValid |-> FALSE, isCA |-> FALSE,
     dnsNames |-> <<>>, ipAddresses |-> <<>>,
     publicKey |-> NoKey, issuer |-> NoId, signedBy |-> NoId]

\* time.Parse("Jan 2 15:04:05 2006", s), in ticks since the epoch
ParseTime(s) ==
    CASE s = "Jan 1 00:00:01 1970" -> [ok |-> TRUE, t |-> 1 * Second]
      [] s = "Jan 1 00:00:02 1970" -> [ok |-> TRUE, t |-> 2 * Second]
      [] OTHER -> [ok |-> FALSE, t |-> 0]

\* net.ParseIP(h) != nil
ParseIP(h) == h \in {"10.0.0.1"}

\* the tokens of hosts that are IP literals / DNS names, in order
RECURSIVE SelectHosts(_, _)
SelectHosts(hosts, wantIP) ==
    IF hosts = <<>> THEN <<>>
    ELSE IF ParseIP(Head(hosts)) = wantIP
         THEN <<Head(hosts)>> \o SelectHosts(Tail(hosts), wantIP)
         ELSE SelectHosts(Tail(hosts), wantIP)

\* the key usage Generate computes: lines 64-70 and 113-116
KeyUsageOf(priv, isCA) ==
    {"DigitalSignature"}
      \cup (IF priv.family = "RSA" THEN {"KeyEncipherment"} ELSE {})
      \cup (IF isCA THEN {"CertSign"} ELSE {})

\* mutant of BuildTemplate: the validity ends at its start
BuildTemplateNoDuration(o, priv, host, notBefore, serialNumber) ==
    [NoCert EXCEPT
        !.serialNumber = serialNumber,
        !.notBefore = notBefore,
        !.notAfter = notBefore,
        !.keyUsage = KeyUsageOf(priv, o.isCA),
        !.extKeyUsage = {"ServerAuth"},
        !.basicConstraintsValid = TRUE,
        !.isCA = o.isCA,
        !.dnsNames = SelectHosts(host, FALSE),
        !.ipAddresses = SelectHosts(host, TRUE)]

\* the template of lines 82-116
BuildTemplate(o, priv, host, notBefore, serialNumber) ==
    [NoCert EXCEPT
        !.serialNumber = serialNumber,
        !.notBefore = notBefore,
        !.notAfter = notBefore + o.validFor,
        !.keyUsage = KeyUsageOf(priv, o.isCA),
        !.extKeyUsage = {"ServerAuth"},
        !.basicConstraintsValid = TRUE,
        !.isCA = o.isCA,
        !.dnsNames = SelectHosts(host, FALSE),
        !.ipAddresses = SelectHosts(host, TRUE)]

\* the encoding of a time in a certificate: the fraction of a second is cut
DerTime(t) == (t \div Second) * Second

\* x509.CreateCertificate(rand.Reader, &template, parent, pub, priv): the
\* signer's key must be the parent's public key when the parent carries one
\* (a template carries none); the result is the template, with its times
\* encoded and the subject's public key, issued by parent and signed with priv.
CreateCertificate(template, parent, pub, signer, rngOk) ==
    IF ~rngOk \/ pub = NoKey \/ signer = NoKey
       \/ (parent.publicKey # NoKey /\ publicKey(signer) # parent.publicKey)
    THEN [err |-> "failed to create certificate", cert |-> NoCert]
    ELSE [err |-> "",
          cert |-> [template EXCEPT !.notBefore = DerTime(template.notBefore),
                                    !.notAfter = DerTime(template.notAfter),
                                    !.publicKey = pub,
                                    !.issuer = parent.serialNumber,
                                    !.signedBy = signer.id]]

----------------------------------------------------------------------------
(* PEM files *)

NoBlob == [type |-> "", der |-> FALSE, cert |-> NoCert, key |-> NoKey]
CertBlock(c) == [type |-> "CERTIFICATE", der |-> TRUE, cert |-> c, key |-> NoKey]
KeyBlock(k) == [type |-> "PRIVATE KEY", der |-> TRUE, cert |-> NoCert, key |-> k]
\* a PEM block of the given type whose payload is not DER of that type
BadDerBlock(type) == [type |-> type, der |-> FALSE, cert |-> NoCert, key |-> NoKey]

\* the bytes of a file that no Write of pem.Encode produced
Hole == [blob |-> NoBlob, i |-> 0]
\* what the i-th Write of pem.Encode(out, block) puts on the file
PemChunk(block, i) == [blob |-> block, i |-> i]
\* a whole PEM file
PemFile(block) == [i \in 1..PemWrites |-> PemChunk(block, i)]

\* pem.Decode: the block the data starts with, NoBlob when it starts with none
PemDecode(data) ==
    IF /\ Len(data) >= PemWrites
       /\ data[1].blob # NoBlob
       /\ \A i \in 1..PemWrites : data[i] = PemChunk(data[1].blob, i)
    THEN data[1].blob
    ELSE NoBlob

NoFile == [exists |-> FALSE, mode |-> {}, data |-> <<>>]
File(mode, data) == [exists |-> TRUE, mode |-> mode, data |-> data]

\* os.ReadFile(path); ioOk: the environment lets the read through
ReadFile(files, path, ioOk) ==
    IF ioOk /\ path \in Paths /\ files[path].exists /\ "ur" \in files[path].mode
    THEN [ok |-> TRUE, data |-> files[path].data]
    ELSE [ok |-> FALSE, data |-> <<>>]

\* mutant of ParsePemCertFile: the block type is not checked
ParsePemCertFileAnyType(files, path, ioOk) ==
    LET r == ReadFile(files, path, ioOk)
        block == PemDecode(r.data)
    IN  IF ~r.ok THEN [err |-> "failed to read file", cert |-> NoCert]
        ELSE IF block = NoBlob
             THEN [err |-> "failed to parse certificate PEM", cert |-> NoCert]
        ELSE [err |-> "", cert |-> block.cert]

ParsePemCertFile(files, path, ioOk) ==
    LET r == ReadFile(files, path, ioOk)
        block == PemDecode(r.data)
    IN  IF ~r.ok THEN [err |-> "failed to read file", cert |-> NoCert]
        ELSE IF block = NoBlob \/ block.type # "CERTIFICATE"
             THEN [err |-> "failed to parse certificate PEM", cert |-> NoCert]
        ELSE IF ~block.der THEN [err |-> "failed to parse DER data", cert |-> NoCert]
        ELSE [err |-> "", cert |-> block.cert]

ParsePemKeyFile(files, path, ioOk) ==
    LET r == ReadFile(files, path, ioOk)
        block == PemDecode(r.data)
    IN  IF ~r.ok THEN [err |-> "failed to read file", key |-> NoKey]
        ELSE IF block = NoBlob \/ block.type # "PRIVATE KEY"
             THEN [err |-> "failed to parse key PEM", key |-> NoKey]
        ELSE IF ~block.der THEN [err |-> "failed to parse DER data", key |-> NoKey]
        ELSE [err |-> "", key |-> block.key]

\* os.OpenFile(path, O_WRONLY|O_CREATE|O_TRUNC, perm): an existing file is cut
\* to length zero and keeps its mode; a new one gets perm less the umask
OpenFile(files, path, perm, mask) ==
    [files EXCEPT ![path] =
        IF @.exists THEN [@ EXCEPT !.data = <<>>] ELSE File(perm \ mask, <<>>)]

\* the data after a Write of one cell at offset off (counted in cells): the
\* gap a truncation by another handle left is filled with zero bytes
WriteAt(data, off, cell) ==
    LET n == IF Len(data) > off + 1 THEN Len(data) ELSE off + 1
    IN  [k \in 1..n |-> IF k = off + 1 THEN cell
                        ELSE IF k <= Len(data) THEN data[k] ELSE Hole]

----------------------------------------------------------------------------
(* Certificate.Verify of crypto/x509, as Verify calls it *)

\* the labels of a DNS name
Labels(name) ==
    CASE name = "test.example.com" -> <<"test", "example", "com">>
      [] name = "abc.example.com"  -> <<"abc", "example", "com">>
      [] name = "*.example.com"    -> <<"*", "example", "com">>
      [] name = "example.com"      -> <<"example", "com">>
      [] name = "cadomain.cert"    -> <<"cadomain", "cert">>
      [] OTHER -> <<name>>

\* a name to look for may not hold a wildcard
ValidHostnameInput(name) == \A i \in 1..Len(Labels(name)) : Labels(name)[i] # "*"

\* a wildcard stands for exactly one label, the leftmost
MatchHostnames(pattern, name) ==
    LET pl == Labels(pattern)
        nl == Labels(name)
    IN  /\ Len(pl) = Len(nl)
        /\ \A i \in 1..Len(pl) : (i = 1 /\ pl[i] = "*") \/ pl[i] = nl[i]

\* Certificate.VerifyHostname
VerifyHostname(c, h) ==
    IF ParseIP(h)
    THEN \E i \in 1..Len(c.ipAddresses) : c.ipAddresses[i] = h
    ELSE \E i \in 1..Len(c.dnsNames) :
            IF ValidHostnameInput(h)
            THEN MatchHostnames(c.dnsNames[i], h)
            ELSE c.dnsNames[i] = h

\* the validity check of Certificate.isValid at time t
TimeValid(c, t) == c.notBefore <= t /\ t <= c.notAfter

\* cert.Verify(VerifyOptions{DNSName: dnsName, Roots: {root}}) at time t
CertVerify(c, root, dnsName, t) ==
    /\ TimeValid(c, t)
    /\ dnsName # "" => VerifyHostname(c, dnsName)
    /\ \/ c = root
       \/ /\ c.signedBy = root.publicKey.id
          /\ root.basicConstraintsValid /\ root.isCA
          /\ "CertSign" \in root.keyUsage
          /\ TimeValid(root, t)
    /\ "ServerAuth" \in c.extKeyUsage

----------------------------------------------------------------------------
(* The calls a caller makes, and the locals of a call *)

Nil == "nil"

GenerateOp(host, dest, opts) ==
    [op |-> "Generate", host |-> host, dest |-> dest, opts |-> opts,
     rootCertPath |-> NoPath, certPath |-> NoPath, dnsName |-> ""]

VerifyOp(rootCertPath, certPath, dnsName) ==
    [op |-> "Verify", host |-> <<>>, dest |-> "", opts |-> <<>>,
     rootCertPath |-> rootCertPath, certPath |-> certPath, dnsName |-> dnsName]

\* the current call of process p
CurOp(p) == script[p][ip[p]]

\* the identity of what the current call of p draws from rand.Reader
FreshId(p) == <<p, ip[p]>>

\* Generate's locals before its first statement; signInvoked is history: the
\* call has reached x509.CreateCertificate
NoGen ==
    [i |-> 1, o |-> initOptions, priv |-> NoKey, template |-> NoCert,
     parentCert |-> NoCert, parentKey |-> NoKey, derBytes |-> NoCert,
     privBytes |-> NoBlob, signInvoked |-> FALSE]

\* Verify's locals before its first statement; at is history: the time at
\* which cert.Verify ran
NoVer == [rootCert |-> NoCert, cert |-> NoCert, at |-> 0, ran |-> FALSE]

NoHandle == [path |-> NoPath, off |-> 0]

\* return err (Nil for a nil error) to the caller
Return(p, err) ==
    /\ results' = [results EXCEPT ![p] = Append(@, err)]
    /\ pc' = [pc EXCEPT ![p] = "idle"]
    /\ ip' = [ip EXCEPT ![p] = @ + 1]

Goto(p, label) ==
    /\ pc' = [pc EXCEPT ![p] = label]
    /\ UNCHANGED <<results, ip>>

\* what an operation of the environment (file I/O, rand.Reader) may do:
\* succeed, or, in an environment that may fail, fail
Outcomes == IF env.mayFail THEN BOOLEAN ELSE {TRUE}

Fault(failed) == envFault' = (envFault \/ failed)

\* another process holds path open
HeldByOther(p, path) == \E q \in Procs \ {p} : handle[q].path = path

\* mutant of CertPath: the directory is fixed
CertPathInData(p) == <<"data", gen[p].o.certFileName>>
CertPath(p) == <<CurOp(p).dest, gen[p].o.certFileName>>
\* mutant of KeyPath: the key goes to the certificate's file name
KeyPathFromCertName(p) == <<CurOp(p).dest, gen[p].o.certFileName>>
KeyPath(p) == <<CurOp(p).dest, gen[p].o.keyFileName>>

----------------------------------------------------------------------------
(* The caller: its next call *)

Call(p) ==
    /\ pc[p] = "idle"
    /\ ip[p] <= Len(script[p])
    /\ IF CurOp(p).op = "Generate"
       THEN /\ gen' = [gen EXCEPT ![p] = NoGen]
            /\ pc' = [pc EXCEPT ![p] = "g_host"]
            /\ entryFs' = [entryFs EXCEPT ![p] = fs]
            /\ UNCHANGED ver
       ELSE /\ ver' = [ver EXCEPT ![p] = NoVer]
            /\ pc' = [pc EXCEPT ![p] = "v_root"]
            /\ UNCHANGED <<gen, entryFs>>
    /\ UNCHANGED <<script, env, ip, results, handle, fs, umask, now, envFault,
                   lastWriter, overlapped>>

----------------------------------------------------------------------------
(* Generate *)

\* lines 28-32
GHost(p) ==
    /\ pc[p] = "g_host"
    /\ IF Len(CurOp(p).host) = 0
       THEN Return(p, "missing required host parameter")
       ELSE Goto(p, "g_opts")
    /\ UNCHANGED <<script, env, gen, ver, handle, fs, umask, now, envFault, entryFs,
                   lastWriter, overlapped>>

\* lines 33-35: one turn of the loop over opts
GOpts(p) ==
    /\ pc[p] = "g_opts"
    /\ IF gen[p].i <= Len(CurOp(p).opts)
       THEN /\ gen' = [gen EXCEPT ![p].o = ApplyOption(CurOp(p).opts[gen[p].i], @),
                                  ![p].i = @ + 1]
            /\ UNCHANGED pc
       ELSE /\ pc' = [pc EXCEPT ![p] = "g_key"]
            /\ UNCHANGED gen
    /\ UNCHANGED <<script, env, ip, results, ver, handle, fs, umask, now, envFault,
                   entryFs, lastWriter, overlapped>>

\* lines 37-60
GKey(p) ==
    /\ pc[p] = "g_key"
    /\ \E rngOk \in Outcomes :
         LET r == GenerateKey(gen[p].o, FreshId(p), rngOk)
         IN  /\ IF r.err # ""
                THEN Return(p, r.err) /\ UNCHANGED gen
                ELSE /\ gen' = [gen EXCEPT ![p].priv = r.key]
                     /\ Goto(p, "g_template")
             /\ Fault(~rngOk /\ r.err = "failed to generate private key")
    /\ UNCHANGED <<script, env, ver, handle, fs, umask, now, entryFs, lastWriter,
                   overlapped>>

\* lines 62-116
GTemplate(p) ==
    /\ pc[p] = "g_template"
    /\ \E rngOk \in Outcomes :
         LET o == gen[p].o
             parsed == ParseTime(o.validFrom)
             notBefore == IF Len(o.validFrom) = 0 THEN now ELSE parsed.t
         IN  IF Len(o.validFrom) # 0 /\ ~parsed.ok
             THEN /\ Return(p, "failed to parse creation date")
                  /\ UNCHANGED <<gen, envFault>>
             ELSE IF ~rngOk
             THEN /\ Return(p, "failed to generate serial number")
                  /\ Fault(TRUE)
                  /\ UNCHANGED gen
             ELSE /\ gen' = [gen EXCEPT ![p].template =
                                BuildTemplate(o, gen[p].priv, CurOp(p).host,
                                              notBefore, FreshId(p))]
                  /\ Goto(p, "g_parent_cert")
                  /\ UNCHANGED envFault
    /\ UNCHANGED <<script, env, ver, handle, fs, umask, now, entryFs, lastWriter,
                   overlapped>>

\* lines 118-124
GParentCert(p) ==
    /\ pc[p] = "g_parent_cert"
    /\ \E ioOk \in Outcomes :
         IF Len(gen[p].o.parentCert) > 0
         THEN LET r == ParsePemCertFile(fs, gen[p].o.parentCert, ioOk)
              IN  /\ IF r.err # ""
                     THEN Return(p, r.err) /\ UNCHANGED gen
                     ELSE /\ gen' = [gen EXCEPT ![p].parentCert = r.cert,
                                                ![p].parentKey = gen[p].priv]
                          /\ Goto(p, "g_parent_key")
                  /\ Fault(~ioOk)
         ELSE /\ gen' = [gen EXCEPT ![p].parentCert = gen[p].template,
                                    ![p].parentKey = gen[p].priv]
              /\ Goto(p, "g_sign")
              /\ UNCHANGED envFault
    /\ UNCHANGED <<script, env, ver, handle, fs, umask, now, entryFs, lastWriter,
                   overlapped>>

\* lines 125-128
GParentKey(p) ==
    /\ pc[p] = "g_parent_key"
    /\ \E ioOk \in Outcomes :
         LET r == ParsePemKeyFile(fs, gen[p].o.parentKey, ioOk)
         IN  /\ IF r.err # ""
                THEN Return(p, r.err) /\ UNCHANGED gen
                ELSE /\ gen' = [gen EXCEPT ![p].parentKey = r.key]
                     /\ Goto(p, "g_sign")
             /\ Fault(~ioOk)
    /\ UNCHANGED <<script, env, ver, handle, fs, umask, now, entryFs, lastWriter,
                   overlapped>>

\* mutant of GSign: the certificate file is created before the certificate is
GSignAfterCreate(p) ==
    /\ pc[p] = "g_sign"
    /\ fs' = OpenFile(fs, CertPath(p), Mode0666, umask)
    /\ \E rngOk \in Outcomes :
         LET r == CreateCertificate(gen[p].template, gen[p].parentCert,
                                    publicKey(gen[p].priv), gen[p].parentKey, rngOk)
         IN  /\ IF r.err # ""
                THEN /\ gen' = [gen EXCEPT ![p].signInvoked = TRUE]
                     /\ Return(p, r.err)
                ELSE /\ gen' = [gen EXCEPT ![p].signInvoked = TRUE,
                                           ![p].derBytes = r.cert]
                     /\ Goto(p, "g_cert_create")
             /\ Fault(~rngOk)
    /\ UNCHANGED <<script, env, ver, handle, umask, now, entryFs, lastWriter,
                   overlapped>>

\* lines 131-134
GSign(p) ==
    /\ pc[p] = "g_sign"
    /\ \E rngOk \in Outcomes :
         LET r == CreateCertificate(gen[p].template, gen[p].parentCert,
                                    publicKey(gen[p].priv), gen[p].parentKey, rngOk)
         IN  /\ IF r.err # ""
                THEN /\ gen' = [gen EXCEPT ![p].signInvoked = TRUE]
                     /\ Return(p, r.err)
                ELSE /\ gen' = [gen EXCEPT ![p].signInvoked = TRUE,
                                           ![p].derBytes = r.cert]
                     /\ Goto(p, "g_cert_create")
             /\ Fault(~rngOk)
    /\ UNCHANGED <<script, env, ver, handle, fs, umask, now, entryFs, lastWriter,
                   overlapped>>

\* lines 136-139: os.Create
GCertCreate(p) ==
    /\ pc[p] = "g_cert_create"
    /\ \E ioOk \in Outcomes :
         IF ioOk
         THEN /\ fs' = OpenFile(fs, CertPath(p), Mode0666, umask)
              /\ handle' = [handle EXCEPT ![p] = [path |-> CertPath(p), off |-> 0]]
              /\ overlapped' = [overlapped EXCEPT ![CertPath(p)] =
                                    @ \/ HeldByOther(p, CertPath(p))]
              /\ Goto(p, "g_cert_write")
              /\ UNCHANGED envFault
         ELSE /\ Return(p, "failed to open cert.pem for writing")
              /\ Fault(TRUE)
              /\ UNCHANGED <<fs, handle, overlapped>>
    /\ UNCHANGED <<script, env, gen, ver, umask, now, entryFs, lastWriter>>

\* lines 141-143: one Write of pem.Encode
GCertWrite(p) ==
    /\ pc[p] = "g_cert_write"
    /\ \E ioOk \in Outcomes :
         IF ioOk
         THEN /\ fs' = [fs EXCEPT ![handle[p].path].data =
                          WriteAt(@, handle[p].off,
                                  PemChunk(CertBlock(gen[p].derBytes), handle[p].off + 1))]
              /\ handle' = [handle EXCEPT ![p].off = @ + 1]
              /\ lastWriter' = [lastWriter EXCEPT ![handle[p].path] = p]
              /\ Goto(p, IF handle[p].off + 1 = PemWrites
                         THEN "g_cert_close" ELSE "g_cert_write")
              /\ UNCHANGED envFault
         ELSE /\ Return(p, "failed to write data to cert.pem")
              /\ handle' = [handle EXCEPT ![p] = NoHandle]
              /\ Fault(TRUE)
              /\ UNCHANGED <<fs, lastWriter>>
    /\ UNCHANGED <<script, env, gen, ver, umask, now, entryFs, overlapped>>

\* lines 145-147
GCertClose(p) ==
    /\ pc[p] = "g_cert_close"
    /\ handle' = [handle EXCEPT ![p] = NoHandle]
    /\ \E ioOk \in Outcomes :
         IF ioOk
         THEN Goto(p, "g_key_open") /\ UNCHANGED envFault
         ELSE Return(p, "error closing cert.pem") /\ Fault(TRUE)
    /\ UNCHANGED <<script, env, gen, ver, fs, umask, now, entryFs, lastWriter,
                   overlapped>>

\* lines 149-152
GKeyOpen(p) ==
    /\ pc[p] = "g_key_open"
    /\ \E ioOk \in Outcomes :
         IF ioOk
         THEN /\ fs' = OpenFile(fs, KeyPath(p), Mode0600, umask)
              /\ handle' = [handle EXCEPT ![p] = [path |-> KeyPath(p), off |-> 0]]
              /\ overlapped' = [overlapped EXCEPT ![KeyPath(p)] =
                                    @ \/ HeldByOther(p, KeyPath(p))]
              /\ Goto(p, "g_key_marshal")
              /\ UNCHANGED envFault
         ELSE /\ Return(p, "failed to open key.pem for writing")
              /\ Fault(TRUE)
              /\ UNCHANGED <<fs, handle, overlapped>>
    /\ UNCHANGED <<script, env, gen, ver, umask, now, entryFs, lastWriter>>

\* x509.MarshalPKCS8PrivateKey(priv): the three key families are supported
MarshalPKCS8PrivateKey(priv) ==
    IF priv.family \in {"RSA", "ECDSA", "Ed25519"}
    THEN [err |-> "", block |-> KeyBlock(priv)]
    ELSE [err |-> "unable to marshal private key", block |-> NoBlob]

\* lines 154-157
GKeyMarshal(p) ==
    /\ pc[p] = "g_key_marshal"
    /\ LET r == MarshalPKCS8PrivateKey(gen[p].priv)
       IN  IF r.err # ""
           THEN /\ Return(p, r.err)
                /\ handle' = [handle EXCEPT ![p] = NoHandle]
                /\ UNCHANGED gen
           ELSE /\ gen' = [gen EXCEPT ![p].privBytes = r.block]
                /\ Goto(p, "g_key_write")
                /\ UNCHANGED handle
    /\ UNCHANGED <<script, env, ver, fs, umask, now, envFault, entryFs, lastWriter,
                   overlapped>>

\* lines 159-161: one Write of pem.Encode
GKeyWrite(p) ==
    /\ pc[p] = "g_key_write"
    /\ \E ioOk \in Outcomes :
         IF ioOk
         THEN /\ fs' = [fs EXCEPT ![handle[p].path].data =
                          WriteAt(@, handle[p].off,
                                  PemChunk(gen[p].privBytes, handle[p].off + 1))]
              /\ handle' = [handle EXCEPT ![p].off = @ + 1]
              /\ lastWriter' = [lastWriter EXCEPT ![handle[p].path] = p]
              /\ Goto(p, IF handle[p].off + 1 = PemWrites
                         THEN "g_key_close" ELSE "g_key_write")
              /\ UNCHANGED envFault
         ELSE /\ Return(p, "failed to write data to key.pem")
              /\ handle' = [handle EXCEPT ![p] = NoHandle]
              /\ Fault(TRUE)
              /\ UNCHANGED <<fs, lastWriter>>
    /\ UNCHANGED <<script, env, gen, ver, umask, now, entryFs, overlapped>>

\* lines 163-167
GKeyClose(p) ==
    /\ pc[p] = "g_key_close"
    /\ handle' = [handle EXCEPT ![p] = NoHandle]
    /\ \E ioOk \in Outcomes :
         IF ioOk
         THEN Return(p, Nil) /\ UNCHANGED envFault
         ELSE Return(p, "error closing key.pem") /\ Fault(TRUE)
    /\ UNCHANGED <<script, env, gen, ver, fs, umask, now, entryFs, lastWriter,
                   overlapped>>

----------------------------------------------------------------------------
(* Verify *)

\* lines 192-198
VRoot(p) ==
    /\ pc[p] = "v_root"
    /\ \E ioOk \in Outcomes :
         LET r == ParsePemCertFile(fs, CurOp(p).rootCertPath, ioOk)
         IN  /\ IF r.err # ""
                THEN Return(p, r.err) /\ UNCHANGED ver
                ELSE /\ ver' = [ver EXCEPT ![p].rootCert = r.cert]
                     /\ Goto(p, "v_cert")
             /\ Fault(~ioOk)
    /\ UNCHANGED <<script, env, gen, handle, fs, umask, now, entryFs, lastWriter,
                   overlapped>>

\* lines 200-203
VCert(p) ==
    /\ pc[p] = "v_cert"
    /\ \E ioOk \in Outcomes :
         LET r == ParsePemCertFile(fs, CurOp(p).certPath, ioOk)
         IN  /\ IF r.err # ""
                THEN Return(p, r.err) /\ UNCHANGED ver
                ELSE /\ ver' = [ver EXCEPT ![p].cert = r.cert]
                     /\ Goto(p, "v_verify")
             /\ Fault(~ioOk)
    /\ UNCHANGED <<script, env, gen, handle, fs, umask, now, entryFs, lastWriter,
                   overlapped>>

\* mutant of VVerify: the options of cert.Verify carry no DNSName
VVerifyNoDNSName(p) ==
    /\ pc[p] = "v_verify"
    /\ ver' = [ver EXCEPT ![p].at = now, ![p].ran = TRUE]
    /\ IF CertVerify(ver[p].cert, ver[p].rootCert, "", now)
       THEN Return(p, Nil)
       ELSE Return(p, "failed to verify certificate")
    /\ UNCHANGED <<script, env, gen, handle, fs, umask, now, envFault, entryFs,
                   lastWriter, overlapped>>

\* lines 205-214
VVerify(p) ==
    /\ pc[p] = "v_verify"
    /\ ver' = [ver EXCEPT ![p].at = now, ![p].ran = TRUE]
    /\ IF CertVerify(ver[p].cert, ver[p].rootCert, CurOp(p).dnsName, now)
       THEN Return(p, Nil)
       ELSE Return(p, "failed to verify certificate")
    /\ UNCHANGED <<script, env, gen, handle, fs, umask, now, envFault, entryFs,
                   lastWriter, overlapped>>

----------------------------------------------------------------------------
(* The clock.  It is read by time.Now() in Generate (line 74) and by          *)
(* cert.Verify (line 210) only, so it is advanced only when a process is      *)
(* about to read it: a tick anywhere else commutes with the steps up to the  *)
(* next read.                                                                *)

Tick ==
    /\ now < env.lastTick
    /\ \E p \in Procs : pc[p] \in {"g_template", "v_verify"}
    /\ now' = now + 1
    /\ UNCHANGED <<script, env, ip, pc, results, gen, ver, handle, fs, umask,
                   envFault, entryFs, lastWriter, overlapped>>

Step(p) ==
    \/ Call(p)
    \/ GHost(p) \/ GOpts(p) \/ GKey(p) \/ GTemplate(p)
    \/ GParentCert(p) \/ GParentKey(p) \/ GSign(p)
    \/ GCertCreate(p) \/ GCertWrite(p) \/ GCertClose(p)
    \/ GKeyOpen(p) \/ GKeyMarshal(p) \/ GKeyWrite(p) \/ GKeyClose(p)
    \/ VRoot(p) \/ VCert(p) \/ VVerify(p)

Next == (\E p \in Procs : Step(p)) \/ Tick

----------------------------------------------------------------------------
(* Initial states *)

EmptyFs == [path \in Paths |-> NoFile]

\* all sequences over S of length at most n
SeqsUpTo(S, n) == UNION {[1..k -> S] : k \in 0..n}

InitWith(scripts, files, mask, mayFail, lastTick) ==
    /\ script = scripts
    /\ env = [mayFail |-> mayFail, lastTick |-> lastTick]
    /\ ip = [p \in Procs |-> 1]
    /\ pc = [p \in Procs |-> "idle"]
    /\ results = [p \in Procs |-> <<>>]
    /\ gen = [p \in Procs |-> NoGen]
    /\ ver = [p \in Procs |-> NoVer]
    /\ handle = [p \in Procs |-> NoHandle]
    /\ fs = files
    /\ umask = mask
    /\ now = 0
    /\ envFault = FALSE
    /\ entryFs = [p \in Procs |-> files]
    /\ lastWriter = [path \in Paths |-> "none"]
    /\ overlapped = [path \in Paths |-> FALSE]

Host0 == <<"test.example.com">>
DataCert == <<"data", "cert.pem">>
DataKey == <<"data", "key.pem">>

\* Material a previous run left on disk: the key pair and the self-signed CA
\* certificate that Generate(cadomain.cert, dir, WithCA()) issued at time 0.
ExtKey(n) == RsaKey(2048, <<"ext", n>>)
ExtCert(n) ==
    LET t == BuildTemplate([initOptions EXCEPT !.isCA = TRUE], ExtKey(n),
                           <<"cadomain.cert">>, 0, <<"ext", n>>)
    IN  CreateCertificate(t, t, publicKey(ExtKey(n)), ExtKey(n), TRUE).cert

\* a file that holds no PEM block
JunkFile(mode) == File(mode, <<Hole>>)

CaCertPath(dir) == <<dir, "ca_cert.pem">>
CaKeyPath(dir) == <<dir, "ca_key.pem">>

\* the CA pair n in directory dir
WithCaFiles(files, dir, n) ==
    [files EXCEPT ![CaCertPath(dir)] = File(Mode0644, PemFile(CertBlock(ExtCert(n)))),
                  ![CaKeyPath(dir)] = File(Mode0600, PemFile(KeyBlock(ExtKey(n))))]

SignByCa(dir) == WithSignByParent(CaCertPath(dir), CaKeyPath(dir))

\* p1 makes the calls of s, p2 makes none
Solo(s) == [p \in Procs |-> IF p = "p1" THEN s ELSE <<>>]

\* SpecOpts: one Generate with any list of at most MaxOpts options, then
\* Verify, in an environment that does not fail
AllOptions ==
    {WithKeyFileName("ca_key.pem"),
     WithCertFileName("ca_cert.pem"),
     SignByCa("data"),
     WithStartDate("Jan 1 00:00:01 1970"),
     WithDuration(0), WithDuration(1),
     WithCA, WithRSABits(1024),
     WithP224, WithP256, WithP384, WithP521, WithED25519}

InitOpts ==
    \E opts \in SeqsUpTo(AllOptions, MaxOpts) :
        InitWith(Solo(<<GenerateOp(Host0, "data", opts),
                        VerifyOp(DataCert, DataCert, "test.example.com")>>),
                 WithCaFiles(EmptyFs, "data", 1), Umask022, FALSE, 1)

SpecOpts == InitOpts /\ [][Next]_vars

\* SpecKey: one Generate with any list of at most MaxKeyOpts of the options
\* that decide the key and the key usage, in an environment that does not fail
KeyOptions ==
    {WithCA, WithED25519, WithP224, WithP256, WithP384, WithP521,
     CurveLiteral("P999"), WithRSABits(1024), SignByCa("data")}

InitKey ==
    \E opts \in SeqsUpTo(KeyOptions, MaxKeyOpts) :
        InitWith(Solo(<<GenerateOp(Host0, "data", opts),
                        VerifyOp(DataCert, DataCert, "test.example.com")>>),
                 WithCaFiles(EmptyFs, "data", 1), Umask022, FALSE, 1)

SpecKey == InitKey /\ [][Next]_vars

\* SpecTime: one Generate with start dates and durations, then Verify of the
\* certificate against itself, while the clock runs
TimeOptions ==
    {WithStartDate("Jan 1 00:00:01 1970"), WithStartDate("tomorrow"),
     WithDuration(-1), WithDuration(0), WithDuration(1), WithDuration(Second),
     SignByCa("data")}

\* the hosts of the certificate, and the name Verify looks for
TimeCases ==
    {<<Host0, "test.example.com">>, <<Host0, "abc.example.com">>,
     <<(<<"*.example.com", "10.0.0.1">>), "*.example.com">>,
     <<(<<"*.example.com", "10.0.0.1">>), "10.0.0.1">>}

InitTime ==
    \E opts \in SeqsUpTo(TimeOptions, MaxOpts), tc \in TimeCases :
        InitWith(Solo(<<GenerateOp(tc[1], "data", opts),
                        VerifyOp(DataCert, DataCert, tc[2])>>),
                 WithCaFiles(EmptyFs, "data", 1), Umask022, TRUE, MaxTime)

SpecTime == InitTime /\ [][Next]_vars

\* SpecParent: one Generate with any pair of parent paths, over any state of
\* the two parent files, with or without output files already there
ParentPathChoices == {NoPath, CaCertPath("data"), CaKeyPath("data")}
ParentOptions ==
    {WithSignByParent(a, b) : a \in ParentPathChoices, b \in ParentPathChoices}
      \cup {WithStartDate("tomorrow"), WithRSABits(0)}
ParentOptSeqs == {<<>>} \cup {<<x>> : x \in ParentOptions}

CertFileChoices ==
    {NoFile, JunkFile(Mode0644),
     File(Mode0644, PemFile(BadDerBlock("CERTIFICATE"))),
     File(Mode0644, PemFile(CertBlock(ExtCert(1))))}
KeyFileChoices ==
    {NoFile, JunkFile(Mode0600),
     File(Mode0600, PemFile(BadDerBlock("PRIVATE KEY"))),
     File(Mode0600, PemFile(KeyBlock(ExtKey(1)))),
     File(Mode0600, PemFile(KeyBlock(ExtKey(2))))}
OldFileChoices == {NoFile, JunkFile(Mode0644), JunkFile(Mode0600)}

InitParent ==
    \E opts \in ParentOptSeqs, host \in {<<>>, Host0},
       cf \in CertFileChoices, kf \in KeyFileChoices, old \in {NoFile, JunkFile(Mode0644)} :
        InitWith(Solo(<<GenerateOp(host, "data", opts),
                        VerifyOp(DataCert, DataCert, "test.example.com")>>),
                 [EmptyFs EXCEPT ![CaCertPath("data")] = cf,
                                 ![CaKeyPath("data")] = kf,
                                 ![DataCert] = old,
                                 ![DataKey] = old],
                 Umask022, TRUE, 1)

SpecParent == InitParent /\ [][Next]_vars

\* SpecFiles: one Generate with any output file names, over any state of the
\* output files and either umask
FileOptions ==
    {WithCertFileName("key.pem"), WithKeyFileName("cert.pem"), SignByCa("data")}

InitFiles ==
    \E opts \in SeqsUpTo(FileOptions, MaxOpts),
       oldCert \in OldFileChoices, oldKey \in OldFileChoices,
       mask \in {Umask022, Umask077} :
        InitWith(Solo(<<GenerateOp(Host0, "data", opts),
                        VerifyOp(DataCert, DataCert, "test.example.com")>>),
                 [WithCaFiles(EmptyFs, "data", 1) EXCEPT ![DataCert] = oldCert,
                                                         ![DataKey] = oldKey],
                 mask, TRUE, 1)

SpecFiles == InitFiles /\ [][Next]_vars

\* SpecChain: Generate a CA into files c and k of a directory, Generate a leaf
\* signed by these files into the same directory, Verify the leaf against c
ChainHosts == {Host0, <<"*.example.com">>, <<"test.example.com", "10.0.0.1">>}
ChainNames == {"test.example.com", "abc.example.com", "example.com", "10.0.0.1"}

ChainScript(c, k, leafHost, name) ==
    <<GenerateOp(<<"cadomain.cert">>, "data",
                 <<WithCA, WithCertFileName(c), WithKeyFileName(k)>>),
      GenerateOp(leafHost, "data", <<WithSignByParent(<<"data", c>>, <<"data", k>>)>>),
      VerifyOp(<<"data", c>>, DataCert, name)>>

InitChain ==
    \E c \in Names, k \in Names, leafHost \in ChainHosts, name \in ChainNames :
        InitWith(Solo(ChainScript(c, k, leafHost, name)), EmptyFs, Umask022, FALSE, 1)

SpecChain == InitChain /\ [][Next]_vars

\* SpecConc: two concurrent callers.  p1 generates into data under the default
\* names, or into alt under the names of the CA files there; p2 generates
\* into data under the default names, self-signed or signed by the CA files
\* of alt, and verifies.
ConcCalls1 ==
    {GenerateOp(Host0, "data", <<>>),
     GenerateOp(Host0, "alt", <<WithCertFileName("ca_cert.pem"), WithKeyFileName("ca_key.pem")>>)}
ConcOpts2 == {<<>>, <<SignByCa("alt")>>}

InitConc ==
    \E g1 \in ConcCalls1, o2 \in ConcOpts2 :
        InitWith([p \in Procs |->
                    IF p = "p1"
                    THEN <<g1>>
                    ELSE <<GenerateOp(Host0, "data", o2),
                           VerifyOp(DataCert, DataCert, "test.example.com")>>],
                 WithCaFiles(EmptyFs, "alt", 1), Umask022, FALSE, 1)

SpecConc == InitConc /\ [][Next]_vars

----------------------------------------------------------------------------
(* Observations the claims are stated with *)

\* process p has finished its k-th call
Returned(p, k) == Len(results[p]) >= k

\* index in script[p] of the latest Generate call p has begun; 0 when none
RECURSIVE LastGenerate(_, _)
LastGenerate(p, k) ==
    IF k = 0 THEN 0
    ELSE IF k <= Len(script[p]) /\ script[p][k].op = "Generate"
              /\ (k < ip[p] \/ (k = ip[p] /\ pc[p] # "idle"))
         THEN k
         ELSE LastGenerate(p, k - 1)

GenIdx(p) == LastGenerate(p, Len(script[p]))

\* the latest Generate call of p has returned, and what it returned
GenReturned(p) == GenIdx(p) > 0 /\ Returned(p, GenIdx(p))
GenResult(p) == results[p][GenIdx(p)]
GenOp(p) == script[p][GenIdx(p)]

\* the output paths of the latest Generate call of p
GenCertPath(p) == <<GenOp(p).dest, gen[p].o.certFileName>>
GenKeyPath(p) == <<GenOp(p).dest, gen[p].o.keyFileName>>

----------------------------------------------------------------------------
(* C8: the options resolver *)

Fields == DOMAIN initOptions

\* the fields an option function assigns, read off its documentation
Targets(opt) ==
    CASE opt.fn = "WithKeyFileName"  -> {"keyFileName"}
      [] opt.fn = "WithCertFileName" -> {"certFileName"}
      [] opt.fn = "WithSignByParent" -> {"parentCert", "parentKey"}
      [] opt.fn = "WithStartDate"    -> {"validFrom"}
      [] opt.fn = "WithDuration"     -> {"validFor"}
      [] opt.fn = "WithCA"           -> {"isCA"}
      [] opt.fn = "WithRSABits"      -> {"rsaBits"}
      [] opt.fn \in {"WithP224", "WithP256", "WithP384", "WithP521"} -> {"ecdsaCurve"}
      [] opt.fn = "WithED25519"      -> {"ed25519Key"}

\* the index of the last of opts[1..n] that assigns field f; 0 when none does
RECURSIVE LastTargeting(_, _, _)
LastTargeting(opts, n, f) ==
    IF n = 0 THEN 0
    ELSE IF f \in Targets(opts[n]) THEN n
    ELSE LastTargeting(opts, n - 1, f)

\* field f of the configuration after opts[1..n]: the default, or what the
\* last option assigning f gives it
FieldAfter(opts, n, f) ==
    LET k == LastTargeting(opts, n, f)
        opt == opts[k]
    IN  IF k = 0
        THEN CASE f = "certFileName" -> "cert.pem"
               [] f = "keyFileName"  -> "key.pem"
               [] f = "validFor"     -> 365 * 24 * Hour
               [] f = "rsaBits"      -> 2048
               [] f = "validFrom"    -> ""
               [] f = "ecdsaCurve"   -> ""
               [] f = "parentCert"   -> <<>>
               [] f = "parentKey"    -> <<>>
               [] f = "ed25519Key"   -> FALSE
               [] f = "isCA"         -> FALSE
        ELSE CASE f = "certFileName" -> opt.str
               [] f = "keyFileName"  -> opt.str
               [] f = "validFor"     -> opt.num
               [] f = "rsaBits"      -> opt.num
               [] f = "validFrom"    -> opt.str
               [] f = "ecdsaCurve"   -> (CASE opt.fn = "WithP224" -> "P224"
                                           [] opt.fn = "WithP256" -> "P256"
                                           [] opt.fn = "WithP384" -> "P384"
                                           [] opt.fn = "WithP521" -> "P521")
               [] f = "parentCert"   -> opt.path1
               [] f = "parentKey"    -> opt.path2
               [] f = "ed25519Key"   -> TRUE
               [] f = "isCA"         -> TRUE

\* the fields in which two configurations differ
Changed(o1, o2) == {f \in Fields : o1[f] # o2[f]}

\* C8 as stated: the resolved configuration is the defaults with the options
\* applied left to right, and every option function changes exactly one
\* field: no turn of the loop over opts changes more than one field.
C8_EveryOptionOneField ==
    [][\A p \in Procs :
          (pc[p] = "g_opts" /\ gen'[p].i = gen[p].i + 1)
              => Cardinality(Changed(gen[p].o, gen'[p].o)) <= 1]_vars

\* C8 as amended: after k turns of the loop over opts, every field of the
\* configuration holds its default, or the value given by the last of the
\* first k options that assigns it; an option function assigns one field,
\* except WithSignByParent, which assigns parentCert and parentKey.
C8_ResolvedConfiguration ==
    \A p \in Procs :
        pc[p] \in {"g_opts", "g_key"} =>
            \A f \in Fields :
                gen[p].o[f] = FieldAfter(CurOp(p).opts, gen[p].i - 1, f)

\* C8 witness: the options are resolved, the second of two distinct options
\* on one field has overridden the first
C8_Witness ==
    \E p \in Procs :
        /\ pc[p] = "g_key"
        /\ Len(CurOp(p).opts) = 2
        /\ Targets(CurOp(p).opts[1]) = Targets(CurOp(p).opts[2])
        /\ CurOp(p).opts[1] # CurOp(p).opts[2]
        /\ gen[p].o # ApplyOption(CurOp(p).opts[1], initOptions)
        /\ gen[p].o # initOptions

----------------------------------------------------------------------------
(* C1: key family and template bits *)

\* the positions of Generate after the key switch, and after the template
AfterKey ==
    {"g_template", "g_parent_cert", "g_parent_key", "g_sign", "g_cert_create",
     "g_cert_write", "g_cert_close", "g_key_open", "g_key_marshal", "g_key_write",
     "g_key_close"}
AfterTemplate == AfterKey \ {"g_template"}

\* the reference table of key families
TableFamily(curve, ed25519) ==
    CASE curve = "" /\ ed25519  -> "Ed25519"
      [] curve = "" /\ ~ed25519 -> "RSA"
      [] curve \in NamedCurves  -> "ECDSA"
      [] OTHER                  -> "error"

\* C1: for every resolved configuration, the key Generate holds after the key
\* switch is of the family the table gives (Ed25519 when no curve is set and
\* the flag is set, RSA of the configured size when neither is set, ECDSA on
\* the curve when one of the four named curves is set, whatever the flag);
\* any other curve makes Generate return the unrecognized-curve error with no
\* key generated; the template has DigitalSignature, has KeyEncipherment iff
\* the key is RSA, has CertSign and IsCA iff the CA flag is set, and has
\* BasicConstraintsValid.
C1_KeyFamilyTable ==
    \A p \in Procs :
        LET o == gen[p].o
            fam == TableFamily(o.ecdsaCurve, o.ed25519Key)
            priv == gen[p].priv
            t == gen[p].template
        IN  /\ pc[p] \in AfterKey =>
                /\ fam # "error"
                /\ priv.family = fam
                /\ fam = "RSA" => priv.bits = o.rsaBits
                /\ fam = "ECDSA" => priv.curve = o.ecdsaCurve
            /\ (GenReturned(p) /\ fam = "error") =>
                /\ GenResult(p) = "unrecognized elliptic curve"
                /\ priv = NoKey
            /\ (GenReturned(p) /\ GenResult(p) = "unrecognized elliptic curve") =>
                fam = "error"
            /\ pc[p] \in AfterTemplate =>
                /\ "DigitalSignature" \in t.keyUsage
                /\ ("KeyEncipherment" \in t.keyUsage) = (fam = "RSA")
                /\ ("CertSign" \in t.keyUsage) = o.isCA
                /\ t.isCA = o.isCA
                /\ t.basicConstraintsValid

\* C1 witness: a named curve, the Ed25519 flag and the CA flag are all set,
\* and the template was built around an ECDSA key
C1_Witness ==
    \E p \in Procs :
        /\ pc[p] \in AfterTemplate
        /\ gen[p].o.ecdsaCurve = CurveP384
        /\ gen[p].o.ed25519Key
        /\ gen[p].o.isCA
        /\ gen[p].priv.family = "ECDSA"
        /\ gen[p].template.keyUsage = {"DigitalSignature", "CertSign"}

\* C1 witness of the error row: an unrecognized curve was rejected
C1_WitnessUnrecognized ==
    \E p \in Procs :
        /\ GenReturned(p)
        /\ GenResult(p) = "unrecognized elliptic curve"
        /\ gen[p].o.ed25519Key

----------------------------------------------------------------------------
(* C3: the validity window *)

VerifyFailed == "failed to verify certificate"

\* p generated a self-signed certificate under the default names and then
\* ran cert.Verify on it with itself as root
SelfVerified(p) ==
    /\ Len(results[p]) = 2
    /\ script[p][1].op = "Generate" /\ script[p][2].op = "Verify"
    /\ results[p][1] = Nil
    /\ gen[p].o.parentCert = NoPath
    /\ ver[p].ran

\* name is one of the names the certificate was requested for
Listed(name, host) == \E i \in 1..Len(host) : host[i] = name

\* the step in which Generate builds its template
TemplateStep(p) == pc[p] = "g_template" /\ pc'[p] = "g_parent_cert"

\* the start of the validity the options ask for
AskedNotBefore(o) ==
    CASE o.validFrom = ""                    -> now
      [] o.validFrom = "Jan 1 00:00:01 1970" -> Second
      [] o.validFrom = "Jan 1 00:00:02 1970" -> 2 * Second

\* Generate sets notAfter = notBefore + duration, notBefore being the parsed
\* start date or the current time
C3_TemplateWindow ==
    \A p \in Procs :
        TemplateStep(p) =>
            /\ gen'[p].template.notBefore = AskedNotBefore(gen[p].o)
            /\ gen'[p].template.notAfter = AskedNotBefore(gen[p].o) + gen[p].o.validFor

\* no duration is rejected: with a start date that parses and an environment
\* that does not fail, Generate succeeds
C3_NoDurationRejected ==
    \A p \in Procs :
        (/\ GenReturned(p) /\ ~envFault
         /\ gen[p].o.validFrom = "" \/ ParseTime(gen[p].o.validFrom).ok)
            => GenResult(p) = Nil

\* the window of the issued certificate: the template's, with the fraction of
\* a second cut from both ends; Verify goes by it
C3_VerifyByCertificateWindow ==
    \A p \in Procs :
        SelfVerified(p) =>
            LET t == gen[p].template
                c == ver[p].cert
                T == ver[p].at
            IN  /\ c.notBefore = DerTime(t.notBefore)
                /\ c.notAfter = DerTime(t.notAfter)
                /\ T < c.notBefore => results[p][2] = VerifyFailed
                /\ T > c.notAfter => results[p][2] = VerifyFailed
                /\ (c.notBefore <= T /\ T <= c.notAfter
                        /\ Listed(script[p][2].dnsName, script[p][1].host))
                      => results[p][2] = Nil

C3_WitnessInside ==
    \E p \in Procs :
        /\ SelfVerified(p)
        /\ gen[p].o.validFrom # ""
        /\ gen[p].o.validFor > 0
        /\ results[p][2] = Nil

----------------------------------------------------------------------------
(* C4, C5, C6: the parent pair, and failures before anything is persisted *)

ParentLoadErrors ==
    {"failed to read file", "failed to parse certificate PEM",
     "failed to parse key PEM", "failed to parse DER data"}

PrePersistenceErrors ==
    {"missing required host parameter", "unrecognized elliptic curve",
     "failed to generate private key", "failed to parse creation date",
     "failed to generate serial number", "failed to create certificate"}
      \cup ParentLoadErrors

\* the latest Generate of p got as far as the parent pair
ReachedParent(p) == GenIdx(p) > 0 /\ gen[p].template # NoCert

\* files[path] is a readable file holding exactly one well-formed PEM block
\* of the given type
HoldsPem(files, path, type) ==
    /\ path \in Paths
    /\ files[path].exists /\ "ur" \in files[path].mode
    /\ Len(files[path].data) = PemWrites
    /\ files[path].data[1].blob.type = type
    /\ files[path].data[1].blob.der
    /\ files[path].data = PemFile(files[path].data[1].blob)

\* the two parent files of the latest Generate of p, as they were at its start
GoodParentCert(p) == HoldsPem(entryFs[p], gen[p].o.parentCert, "CERTIFICATE")
GoodParentKey(p) == HoldsPem(entryFs[p], gen[p].o.parentKey, "PRIVATE KEY")
ParentFilesMatch(p) ==
    /\ GoodParentCert(p) /\ GoodParentKey(p)
    /\ publicKey(entryFs[p][gen[p].o.parentKey].data[1].blob.key)
         = entryFs[p][gen[p].o.parentCert].data[1].blob.cert.publicKey

\* C4: the parent certificate path and the parent key path are required
\* together or not at all.  Generate signs with the loaded parent certificate
\* and the loaded parent key exactly when both paths are configured, signs
\* the template with the fresh key exactly when none is configured, and never
\* issues a certificate when only one of the two paths is configured; issuer
\* and signer key of the signing call come from the same source.
C4_ParentPathsTogether ==
    \A p \in Procs :
        LET o == gen[p].o
            both == o.parentCert # NoPath /\ o.parentKey # NoPath
            none == o.parentCert = NoPath /\ o.parentKey = NoPath
            selfSigned == /\ gen[p].parentCert = gen[p].template
                          /\ gen[p].parentKey = gen[p].priv
            parentSigned ==
                /\ GoodParentCert(p) /\ GoodParentKey(p)
                /\ gen[p].parentCert = entryFs[p][o.parentCert].data[1].blob.cert
                /\ gen[p].parentKey = entryFs[p][o.parentKey].data[1].blob.key
        IN  /\ gen[p].signInvoked =>
                    /\ parentSigned = both
                    /\ selfSigned = none
            /\ (GenReturned(p) /\ GenResult(p) = Nil) => (both \/ none)

\* C4 failing input reached: only the key path is configured and Generate
\* has returned success
C4_KeyPathOnlyIssued ==
    \E p \in Procs :
        /\ GenReturned(p) /\ GenResult(p) = Nil
        /\ gen[p].o.parentCert = NoPath /\ gen[p].o.parentKey # NoPath

\* C5 as stated: when parent signing is configured and a parent file is
\* missing, unreadable, not PEM of the expected type or unparseable, or the
\* key does not match the certificate, Generate fails with a parent-load
\* error and the signing primitive is not invoked.
C5_BadParentFailsBeforeSigning ==
    \A p \in Procs :
        (/\ GenReturned(p) /\ ReachedParent(p)
         /\ gen[p].o.parentCert # NoPath
         /\ ~ParentFilesMatch(p))
            => /\ GenResult(p) \in ParentLoadErrors
               /\ ~gen[p].signInvoked

\* C5 as amended: when a parent certificate path is configured and the
\* parent certificate file or the parent key file is missing, unreadable,
\* not PEM of the expected block type or unparseable, Generate fails with a
\* parent-load error before the signing primitive is invoked.  When both
\* files load but the key does not match the certificate, the signing
\* primitive is invoked with the pair, rejects it, and Generate fails with
\* the signing error.
C5_ParentLoadFailure ==
    \A p \in Procs :
        (GenReturned(p) /\ ReachedParent(p) /\ gen[p].o.parentCert # NoPath) =>
            /\ ~(GoodParentCert(p) /\ GoodParentKey(p)) =>
                    /\ GenResult(p) \in ParentLoadErrors
                    /\ ~gen[p].signInvoked
            /\ (GoodParentCert(p) /\ GoodParentKey(p) /\ ~ParentFilesMatch(p)) =>
                    \/ /\ GenResult(p) = "failed to create certificate"
                       /\ gen[p].signInvoked
                    \/ /\ envFault
                       /\ GenResult(p) = "failed to read file"
                       /\ ~gen[p].signInvoked

\* C5 witness: the parent key file holds a key PEM that is not DER of a key,
\* the parent certificate loaded, and Generate failed without signing
C5_Witness ==
    \E p \in Procs :
        /\ GenReturned(p) /\ ReachedParent(p)
        /\ GoodParentCert(p) /\ ~GoodParentKey(p)
        /\ ~envFault
        /\ GenResult(p) = "failed to parse DER data"
        /\ ~gen[p].signInvoked

\* C5 witness of the mismatch: the signing primitive was reached with a key
\* that is not the certificate's
C5_WitnessMismatch ==
    \E p \in Procs :
        /\ GenReturned(p) /\ ReachedParent(p)
        /\ GoodParentCert(p) /\ GoodParentKey(p) /\ ~ParentFilesMatch(p)
        /\ gen[p].signInvoked

\* C6: a failure before persistence ends the call and leaves both
\* destination files as they were when the call began, and the call holds no
\* file open; an empty host returns the missing-host error, and only an
\* empty host does, before any key is generated.
C6_FailureLeavesFiles ==
    \A p \in Procs :
        GenReturned(p) =>
            /\ GenResult(p) \in PrePersistenceErrors =>
                    /\ fs[GenCertPath(p)] = entryFs[p][GenCertPath(p)]
                    /\ fs[GenKeyPath(p)] = entryFs[p][GenKeyPath(p)]
                    /\ gen[p].derBytes = NoCert
            /\ (GenResult(p) = "missing required host parameter")
                    = (GenOp(p).host = <<>>)
            /\ GenOp(p).host = <<>> =>
                    gen[p].priv = NoKey /\ gen[p].o = initOptions

\* C6 witness: signing failed, and the files that stood at the destination
\* are still there
C6_Witness ==
    \E p \in Procs :
        /\ GenReturned(p)
        /\ GenResult(p) = "failed to create certificate"
        /\ ~envFault
        /\ fs[GenCertPath(p)] = JunkFile(Mode0644)
        /\ fs[GenKeyPath(p)] = JunkFile(Mode0644)

----------------------------------------------------------------------------
(* C7, C9: the two output files *)

KeyStepErrors ==
    {"failed to open key.pem for writing", "unable to marshal private key",
     "failed to write data to key.pem", "error closing key.pem"}

CertStages == {"g_cert_create", "g_cert_write", "g_cert_close"}
KeyStages == {"g_key_marshal", "g_key_write", "g_key_close"}

\* the file at path holds the whole certificate / the whole key of the latest
\* Generate of p
CertOnDisk(p, path) == fs[path].exists /\ fs[path].data = PemFile(CertBlock(gen[p].derBytes))
KeyOnDisk(p, path) == fs[path].exists /\ fs[path].data = PemFile(KeyBlock(gen[p].priv))

\* C7: after a successful Generate the key file is readable and writable by
\* its owner only, whether the call created it or truncated a file that was
\* there with other permissions.
C7_KeyFileOwnerOnly ==
    \A p \in Procs :
        (GenReturned(p) /\ GenResult(p) = Nil) =>
            /\ fs[GenKeyPath(p)].exists
            /\ fs[GenKeyPath(p)].mode = Mode0600

\* C7 failing input reached: Generate succeeded over a key file that was
\* there with mode 0644
C7_OldKeyFileOverwritten ==
    \E p \in Procs :
        /\ GenReturned(p) /\ GenResult(p) = Nil
        /\ GenKeyPath(p) # GenCertPath(p)
        /\ entryFs[p][GenKeyPath(p)] = JunkFile(Mode0644)
        /\ KeyOnDisk(p, GenKeyPath(p))

\* the order of the two files, and what success means
FilesInOrder(p) ==
    LET c == GenCertPath(p)
        k == GenKeyPath(p)
    IN  /\ (pc[p] \in CertStages /\ c # k) => fs[k] = entryFs[p][k]
        /\ pc[p] = "g_key_open" =>
                /\ handle[p] = NoHandle
                /\ CertOnDisk(p, c)
                /\ c # k => fs[k] = entryFs[p][k]
        /\ pc[p] \in KeyStages => handle[p].path = k
        /\ (GenReturned(p) /\ GenResult(p) = Nil) =>
                /\ handle[p] = NoHandle
                /\ KeyOnDisk(p, k)
                /\ c # k => CertOnDisk(p, c)

\* C9 as stated: the certificate file is created, written and closed before
\* the key file is opened or truncated; success is returned only if both
\* files were written and closed; a failure at a key-file step returns an
\* error and leaves the newly written certificate file on disk with no
\* matching key file from that call.
C9_KeyStepFailureLeavesCertOnly ==
    \A p \in Procs :
        /\ FilesInOrder(p)
        /\ (GenReturned(p) /\ GenResult(p) \in KeyStepErrors) =>
                /\ CertOnDisk(p, GenCertPath(p))
                /\ ~KeyOnDisk(p, GenKeyPath(p))

\* C9 as amended: the order and the meaning of success are as stated.  A
\* failure at a key-file step returns an error without rolling back.  When
\* the two file names differ, the newly written certificate file stays on
\* disk; the key file is untouched after a failure to open it and holds no
\* whole key after a failure to marshal or write (a failure to close comes
\* after the key was written).  When the two file names are the same, a
\* failure to open leaves the certificate on disk, and any later failure
\* leaves none, the open having truncated it.
C9_KeyStepFailure ==
    \A p \in Procs :
        LET c == GenCertPath(p)
            k == GenKeyPath(p)
            r == GenResult(p)
        IN  /\ FilesInOrder(p)
            /\ (GenReturned(p) /\ r \in KeyStepErrors) =>
                    /\ handle[p] = NoHandle
                    /\ r = "failed to open key.pem for writing" => CertOnDisk(p, c)
                    /\ c # k =>
                            /\ CertOnDisk(p, c)
                            /\ r = "failed to open key.pem for writing"
                                    => fs[k] = entryFs[p][k]
                            /\ r \in {"unable to marshal private key",
                                       "failed to write data to key.pem"}
                                    => ~KeyOnDisk(p, k)
                    /\ (c = k /\ r # "failed to open key.pem for writing")
                            => ~CertOnDisk(p, c)

\* C9 witness: the write of the key failed half way; the certificate is on
\* disk and the key file holds a part of the key
C9_Witness ==
    \E p \in Procs :
        /\ GenReturned(p)
        /\ GenResult(p) = "failed to write data to key.pem"
        /\ GenCertPath(p) # GenKeyPath(p)
        /\ CertOnDisk(p, GenCertPath(p))
        /\ Len(fs[GenKeyPath(p)].data) = 1

----------------------------------------------------------------------------
(* C2: a CA, a leaf signed by it, and Verify of the leaf against the CA *)

\* name matches the DNS name pattern: exactly, or through a wildcard that
\* stands for one label
NameMatches(pattern, name) ==
    \/ pattern = name
    \/ pattern = "*.example.com" /\ name \in {"test.example.com", "abc.example.com"}

\* name matches one of the DNS names among the hosts of a call
MatchesDnsName(host, name) ==
    \E i \in 1..Len(host) : ~ParseIP(host[i]) /\ NameMatches(host[i], name)

\* the script of p is the sequence of C2
IsChain(p) ==
    /\ Len(script[p]) = 3
    /\ script[p][1].op = "Generate" /\ script[p][2].op = "Generate"
    /\ script[p][3].op = "Verify"

\* what C2 says of process p, so far as p has come
ChainHolds(p) ==
    /\ Len(results[p]) >= 1 => results[p][1] = Nil
    /\ Len(results[p]) >= 2 =>
            /\ results[p][2] = Nil
            /\ gen[p].derBytes.issuer = <<p, 1>>
            /\ gen[p].derBytes.signedBy = <<p, 1>>
            /\ gen[p].derBytes.publicKey.id = <<p, 2>>
    /\ Len(results[p]) = 3 =>
            (results[p][3] = Nil)
                = MatchesDnsName(script[p][2].host, script[p][3].dnsName)

\* C2 as stated: for every c and k both Generate calls succeed, the leaf is
\* issued by the CA the first call wrote and signed with the key it wrote,
\* and Verify succeeds when name matches a DNS name of the leaf and fails
\* when it matches none.
C2_ChainForAnyNames ==
    \A p \in Procs : IsChain(p) => ChainHolds(p)

\* C2 as amended: the same, provided the CA certificate file name c differs
\* from the CA key file name k and from key.pem, the name of the leaf's key
\* file (either of which overwrites the CA certificate before it is read),
\* and name is a DNS name, not an IP address.
C2_ChainVerifies ==
    \A p \in Procs :
        (/\ IsChain(p)
         /\ script[p][1].opts[2].str # script[p][1].opts[3].str
         /\ script[p][1].opts[2].str # "key.pem"
         /\ ~ParseIP(script[p][3].dnsName))
            => ChainHolds(p)

\* C2 witness: Verify has accepted abc.example.com for a leaf issued for
\* *.example.com by the CA of the first call
C2_Witness ==
    \E p \in Procs :
        /\ IsChain(p)
        /\ results[p] = <<Nil, Nil, Nil>>
        /\ script[p][2].host = <<"*.example.com">>
        /\ script[p][3].dnsName = "abc.example.com"
        /\ ver[p].rootCert.serialNumber = <<p, 1>>
        /\ ver[p].cert.issuer = <<p, 1>>

\* C2 witness: Verify has refused example.com for a leaf issued for
\* test.example.com
C2_WitnessRefused ==
    \E p \in Procs :
        /\ IsChain(p)
        /\ results[p] = <<Nil, Nil, VerifyFailed>>
        /\ script[p][2].host = <<"test.example.com">>
        /\ script[p][3].dnsName = "example.com"

----------------------------------------------------------------------------
(* C10: two concurrent Generate calls *)

\* the configuration a call resolves from its options
RECURSIVE Resolve(_, _)
Resolve(opts, n) ==
    IF n = 0 THEN initOptions ELSE ApplyOption(opts[n], Resolve(opts, n - 1))

Resolved(op) == Resolve(op.opts, Len(op.opts))

\* the paths a Generate call writes, and the paths it reads
DestPaths(op) ==
    {<<op.dest, Resolved(op).certFileName>>, <<op.dest, Resolved(op).keyFileName>>}
ParentPaths(op) == {Resolved(op).parentCert, Resolved(op).parentKey} \ {NoPath}

\* p and q both begin with a Generate call
BothGenerate(p, q) ==
    /\ p # q
    /\ Len(script[p]) >= 1 /\ script[p][1].op = "Generate"
    /\ Len(script[q]) >= 1 /\ script[q][1].op = "Generate"

\* the Generate call of p went as it goes alone: it succeeded and its two
\* files hold what it wrote
Unaffected(p) ==
    Returned(p, 1) =>
        /\ results[p][1] = Nil
        /\ CertOnDisk(p, GenCertPath(p))
        /\ KeyOnDisk(p, GenKeyPath(p))

\* path holds the whole of what the process that wrote to it last has written
LastWriterWon(path) ==
    \A w \in Procs :
        lastWriter[path] = w =>
            IF path = GenCertPath(w) THEN CertOnDisk(w, path) ELSE KeyOnDisk(w, path)

\* C10 as stated: a call is unaffected by the other unless both target the
\* same destination path; when both target the same directory and file
\* names, after both calls complete each output file holds the complete
\* content written by the call whose write to that file came last.
C10_LastWriterWins ==
    \A p \in Procs, q \in Procs :
        BothGenerate(p, q) =>
            /\ DestPaths(script[p][1]) \cap DestPaths(script[q][1]) = {}
                    => Unaffected(p)
            /\ (/\ DestPaths(script[p][1]) = DestPaths(script[q][1])
                 /\ Returned(p, 1) /\ Returned(q, 1))
                    => \A path \in DestPaths(script[p][1]) : LastWriterWon(path)

\* C10 as amended: a call is unaffected by the other unless the other writes
\* a path the call writes or reads, that is, one of its two destination
\* files or one of its parent files; when both target the same directory
\* and file names, after both calls complete each output file that the two
\* calls did not have open at the same time holds the complete content
\* written by the call whose write to it came last.
C10_ConcurrentCalls ==
    \A p \in Procs, q \in Procs :
        BothGenerate(p, q) =>
            /\ (DestPaths(script[p][1]) \cup ParentPaths(script[p][1]))
                    \cap DestPaths(script[q][1]) = {}
                    => Unaffected(p)
            /\ (/\ DestPaths(script[p][1]) = DestPaths(script[q][1])
                 /\ Returned(p, 1) /\ Returned(q, 1))
                    => \A path \in DestPaths(script[p][1]) :
                            ~overlapped[path] => LastWriterWon(path)

\* C10 witness: both calls wrote the same certificate file, one after the
\* other, and the file holds the certificate of the second
C10_Witness ==
    \E p \in Procs, q \in Procs :
        /\ BothGenerate(p, q)
        /\ DestPaths(script[p][1]) = DestPaths(script[q][1])
        /\ Returned(p, 1) /\ Returned(q, 1)
        /\ results[p][1] = Nil /\ results[q][1] = Nil
        /\ ~overlapped[GenCertPath(p)]
        /\ lastWriter[GenCertPath(p)] = p
        /\ CertOnDisk(p, GenCertPath(p))
        /\ gen[q].derBytes # gen[p].derBytes

\* C10 witness: a call that shares no path with the other went as alone
C10_WitnessDisjoint ==
    \E p \in Procs, q \in Procs :
        /\ BothGenerate(p, q)
        /\ (DestPaths(script[p][1]) \cup ParentPaths(script[p][1]))
                \cap DestPaths(script[q][1]) = {}
        /\ Returned(p, 1) /\ Returned(q, 1)
        /\ CertOnDisk(p, GenCertPath(p)) /\ CertOnDisk(q, GenCertPath(q))

====
